---- MODULE Spec2Model ----
(***************************************************************************)
(* Model of the channel-backed connection pool of src/channel.go:         *)
(* a buffered channel of idle connections, a mutex guarding the pool's    *)
(* fields, and the operations Get, Put, Close, Ping, Release and Len,     *)
(* called concurrently by a fixed set of goroutines.                      *)
(***************************************************************************)
EXTENDS Integers, Sequences, FiniteSets, TLC

\* ---------------------------------------------------------------- bounds
NumProcs == 2          \* goroutines calling the pool
MaxCalls == 4          \* operations begun in one behaviour
MaxTime == 2           \* clock ticks in one behaviour
MaxCapBound == 2       \* largest Config.MaxCap drawn by Init

\* ------------------------------------------------------------- constants
Nil == 0               \* the nil interface value / nil pointer
NoProc == 0            \* the unlocked mutex

Procs == 1..NumProcs
\* Connections: those of the pre-warm and one for each later factory call.
Res == 1..(MaxCapBound + MaxCalls + 1)

\* How the user's Ping callback behaves: absent, always an error, or nil
\* on some calls and an error on others.
PingModes == {"none", "fail", "any"}

VARIABLES
    cfg,            \* the Config the pool was built from
    mu,             \* channelPool.mu: NoProc or the goroutine holding it
    conns,          \* channelPool.conns: "nil" or "chan"
    factory,        \* channelPool.factory # nil
    close,          \* channelPool.close # nil
    ping,           \* channelPool.ping # nil
    ch,             \* the channel object: [buf, closed]
    now,            \* time.Now()
    nextId,         \* connections the factory has produced so far
    destroyCalls,   \* per connection, calls of the user's Close callback
    held,           \* per goroutine, the connections it has borrowed
    pc,             \* per goroutine, its position
    loc,            \* per goroutine, the locals of its running operation
    ret,            \* per goroutine, the outcome of its last operation
    panicked,       \* "none", or the runtime panic that ended the program
    releaseDone,    \* some Release call has returned
    idleAtRelease,  \* connections in the channel at Release's critical section
    handed,         \* connections of idleAtRelease some Get has returned
    pingFailed,     \* connections Get dropped because Ping failed
    timedOut,       \* connections Get found expired
    calls           \* operations begun so far

poolVars == <<mu, conns, factory, close, ping>>
histVars == <<releaseDone, idleAtRelease, handed, pingFailed, timedOut>>
vars == <<cfg, mu, conns, factory, close, ping, ch, now, nextId, destroyCalls,
          held, pc, loc, ret, panicked, releaseDone, idleAtRelease, handed,
          pingFailed, timedOut, calls>>

\* ------------------------------------------------------------- helpers
\* An idleConn: a connection and the time it was put into the channel.
IdleConn(c, t) == [conn |-> c, t |-> t]

NoWrap == IdleConn(Nil, 0)

\* The locals of an operation: Close's parameter conn and who called it,
\* Get's wrapConn, Release's closeFun (as closeFun # nil); and, kept for the
\* properties, whether the call began after a Release had returned, how many
\* entries this Get evicted for idle-timeout, whether a Close it called or
\* a Ping it called returned an error, and the connection and the channel's
\* head left by the Put this goroutine made just before this Get.
NoLocals ==
    [conn |-> Nil, caller |-> "none", wrapConn |-> NoWrap, closeFun |-> FALSE,
     afterRel |-> FALSE, evicted |-> 0, closeErr |-> FALSE, pingErr |-> FALSE,
     putConn |-> Nil, putHead |-> Nil]

\* The outcome of a finished operation as its caller sees it (conn, err),
\* with the branch the code took and the locals kept for the properties.
Outcome(op, c, err, path, l) ==
    [op |-> op, conn |-> c, err |-> err, path |-> path,
     evicted |-> l.evicted, afterRel |-> l.afterRel,
     closeErr |-> l.closeErr, pingErr |-> l.pingErr,
     putConn |-> l.putConn, putHead |-> l.putHead, head |-> Nil]

NoOutcome == Outcome("none", Nil, "nil", "none", NoLocals)

ExpiredAfter(w, timeout, t) == w.t + timeout > t

\* wrapConn.t.Add(timeout).Before(time.Now())
Expired(w, timeout, t) == w.t + timeout < t

\* What the user's Ping callback may answer.
PingOutcomes(mode) ==
    IF mode = "fail" THEN {"ErrPing"} ELSE {"nil", "ErrPing"}

\* The connections sitting in the channel's buffer.
Idle == {ch.buf[i].conn : i \in 1..Len(ch.buf)}

\* The connection at the head of a buffer, Nil if it is empty.
HeadConn(buf) == IF Len(buf) > 0 THEN Head(buf).conn ELSE Nil

\* len(c.getConns()): the length of a nil channel is 0.
PoolLen == IF conns = "nil" THEN 0 ELSE Len(ch.buf)

\* The operation of goroutine p returns.
Return(p, out) ==
    /\ pc' = [pc EXCEPT ![p] = "idle"]
    /\ ret' = [ret EXCEPT ![p] = out]
    /\ loc' = [loc EXCEPT ![p] = NoLocals]

\* Goroutine p is at the given position, and no goroutine has panicked: a
\* panic ends the program.
At(p, position) ==
    /\ panicked = "none"
    /\ pc[p] = position

\* The operations one behaviour may begin. A Put that finds the channel full
\* while Release runs takes five calls (two Get, two Put, Release), so the
\* smallest pre-warmed pool is followed one call further than the others.
CallBudget ==
    IF cfg.MaxCap = 1 /\ cfg.InitialCap = 1 /\ cfg.IdleTimeout = 0
       /\ cfg.Ping = "none"
    THEN MaxCalls + 1
    ELSE MaxCalls

\* Goroutine p begins an operation.
Begin(p) ==
    /\ At(p, "idle")
    /\ calls < CallBudget
    /\ calls' = calls + 1

\* ------------------------------------------------------------- Init
\* The pool NewChannelPool returns: InitialCap connections made by the
\* factory, in the channel, stamped with the construction time.
Init ==
    \E mc \in 1..MaxCapBound, ic \in 0..MaxCapBound, to \in {0, 1},
       pm \in PingModes :
        /\ ic <= mc
        /\ cfg = [InitialCap |-> ic, MaxCap |-> mc, IdleTimeout |-> to,
                  Ping |-> pm]
        /\ mu = NoProc
        /\ conns = "chan"
        /\ factory = TRUE
        /\ close = TRUE
        /\ ping = (pm # "none")
        /\ ch = [buf |-> [i \in 1..ic |-> IdleConn(i, 0)], closed |-> FALSE]
        /\ now = 0
        /\ nextId = ic
        /\ destroyCalls = [r \in Res |-> 0]
        /\ held = [p \in Procs |-> {}]
        /\ pc = [p \in Procs |-> "idle"]
        /\ loc = [p \in Procs |-> NoLocals]
        /\ ret = [p \in Procs |-> NoOutcome]
        /\ panicked = "none"
        /\ releaseDone = FALSE
        /\ idleAtRelease = {}
        /\ handed = {}
        /\ pingFailed = {}
        /\ timedOut = {}
        /\ calls = 0

\* ------------------------------------------------------------- Get
\* The last operation of goroutine p was a Put that returned nil.
AfterPut(p) == ret[p].op = "Put" /\ ret[p].err = "nil"

GetNeverFoundNil == FALSE

\* getConns returned nil.
GetFoundNil == conns = "nil"

RecvKeeps(buf) == [entry |-> Head(buf), rest |-> buf]

RecvNewest(buf) ==
    [entry |-> buf[Len(buf)], rest |-> SubSeq(buf, 1, Len(buf) - 1)]

\* A receive from the channel's buffer: the oldest entry, and what stays.
Recv(buf) == [entry |-> Head(buf), rest |-> Tail(buf)]

SelectBlocks(p) == FALSE

\* The default branch of Get's select: on to the factory, under the mutex.
SelectDefault(p) ==
    /\ pc' = [pc EXCEPT ![p] = "Get_lock"]
    /\ UNCHANGED <<loc, ch, ret>>

\* Get's call of getConns and the nil test on its result.
GetConns(p) ==
    /\ Begin(p)
    /\ mu = NoProc
    /\ LET l == [NoLocals EXCEPT
                   !.afterRel = releaseDone,
                   !.putConn = IF AfterPut(p) THEN ret[p].conn ELSE Nil,
                   !.putHead = IF AfterPut(p) THEN ret[p].head ELSE Nil]
       IN IF GetFoundNil
          THEN Return(p, Outcome("Get", Nil, "ErrClosed", "snapshot", l))
          ELSE /\ pc' = [pc EXCEPT ![p] = "Get_select"]
               /\ loc' = [loc EXCEPT ![p] = l]
               /\ ret' = [ret EXCEPT ![p] = NoOutcome]
    /\ UNCHANGED <<cfg, poolVars, ch, now, nextId, destroyCalls, held,
                   panicked, histVars>>

\* The select of Get's loop: a receive if the channel has an entry or is
\* closed, the default branch otherwise. The test of c.idleTimeout, a field
\* nothing writes, is made with the receive.
GetSelect(p) ==
    /\ At(p, "Get_select")
    /\ IF Len(ch.buf) > 0
       THEN /\ loc' = [loc EXCEPT ![p].wrapConn = Recv(ch.buf).entry]
            /\ ch' = [ch EXCEPT !.buf = Recv(ch.buf).rest]
            /\ pc' = [pc EXCEPT ![p] = IF cfg.IdleTimeout > 0
                                       THEN "Get_timeout"
                                       ELSE "Get_pingcheck"]
            /\ UNCHANGED ret
       ELSE IF ch.closed
       THEN /\ Return(p, Outcome("Get", Nil, "ErrClosed", "recv_closed", loc[p]))
            /\ UNCHANGED ch
       ELSE SelectDefault(p)
    /\ UNCHANGED <<cfg, poolVars, now, nextId, destroyCalls, held, panicked,
                   histVars, calls>>

\* With an idle-timeout configured, the test of the received entry against
\* the clock; an expired entry goes to c.Close and the loop continues.
GetTimeout(p) ==
    /\ At(p, "Get_timeout")
    /\ IF Expired(loc[p].wrapConn, cfg.IdleTimeout, now)
       THEN /\ loc' = [loc EXCEPT ![p].conn = loc[p].wrapConn.conn,
                                  ![p].caller = "Get",
                                  ![p].evicted = @ + 1,
                                  ![p].wrapConn = NoWrap]
            /\ timedOut' = timedOut \cup {loc[p].wrapConn.conn}
            /\ pc' = [pc EXCEPT ![p] = "Close_lock"]
       ELSE /\ pc' = [pc EXCEPT ![p] = "Get_pingcheck"]
            /\ UNCHANGED <<loc, timedOut>>
    /\ UNCHANGED <<cfg, poolVars, ch, now, nextId, destroyCalls, held, ret,
                   panicked, releaseDone, idleAtRelease, handed, pingFailed,
                   calls>>

\* Get hands the received connection to its caller.
GetReturnIdle(p) ==
    /\ Return(p, Outcome("Get", loc[p].wrapConn.conn, "nil", "idle", loc[p]))
    /\ held' = [held EXCEPT ![p] = @ \cup {loc[p].wrapConn.conn}]
    /\ handed' = handed \cup ({loc[p].wrapConn.conn} \cap idleAtRelease)

\* The unlocked test c.ping != nil.
GetPingCheck(p) ==
    /\ At(p, "Get_pingcheck")
    /\ IF ping
       THEN /\ pc' = [pc EXCEPT ![p] = "Get_ping"]
            /\ UNCHANGED <<loc, ret, held, handed>>
       ELSE GetReturnIdle(p)
    /\ UNCHANGED <<cfg, poolVars, ch, now, nextId, destroyCalls, panicked,
                   releaseDone, idleAtRelease, pingFailed, timedOut, calls>>

\* c.Ping(wrapConn.conn): calls c.ping, a nil function if Release has run
\* since the test; on an error Get prints it and continues with the loop.
GetPing(p) ==
    /\ At(p, "Get_ping")
    /\ IF ~ping
       THEN /\ panicked' = "nil_func"
            /\ UNCHANGED <<pc, loc, ret, held, handed, pingFailed>>
       ELSE \E e \in PingOutcomes(cfg.Ping) :
              /\ UNCHANGED panicked
              /\ IF e = "nil"
                 THEN GetReturnIdle(p) /\ UNCHANGED pingFailed
                 ELSE /\ pingFailed' = pingFailed \cup {loc[p].wrapConn.conn}
                      /\ loc' = [loc EXCEPT ![p].wrapConn = NoWrap,
                                             ![p].pingErr = TRUE]
                      /\ pc' = [pc EXCEPT ![p] = "Get_select"]
                      /\ UNCHANGED <<ret, held, handed>>
    /\ UNCHANGED <<cfg, poolVars, ch, now, nextId, destroyCalls, releaseDone,
                   idleAtRelease, timedOut, calls>>

\* The default branch takes the mutex.
GetLock(p) ==
    /\ At(p, "Get_lock")
    /\ mu = NoProc
    /\ mu' = p
    /\ pc' = [pc EXCEPT ![p] = "Get_factory"]
    /\ UNCHANGED <<cfg, conns, factory, close, ping, ch, now, nextId,
                   destroyCalls, held, loc, ret, panicked, histVars, calls>>

\* With the mutex held: continue if the factory is nil, else call it,
\* unlock and return its result.
GetFactory(p) ==
    /\ At(p, "Get_factory")
    /\ mu = p
    /\ mu' = NoProc
    /\ IF ~factory
       THEN /\ pc' = [pc EXCEPT ![p] = "Get_select"]
            /\ UNCHANGED <<nextId, loc, ret, held>>
       ELSE \/ /\ nextId' = nextId + 1
               /\ Return(p, Outcome("Get", nextId + 1, "nil", "created", loc[p]))
               /\ held' = [held EXCEPT ![p] = @ \cup {nextId + 1}]
            \/ /\ Return(p, Outcome("Get", Nil, "ErrFactory", "created", loc[p]))
               /\ UNCHANGED <<nextId, held>>
    /\ UNCHANGED <<cfg, conns, factory, close, ping, ch, now, destroyCalls,
                   panicked, histVars, calls>>

\* ------------------------------------------------------------- Put
PutNeverFoundNil == FALSE

\* Put found c.conns nil.
PutFoundNil == conns = "nil"

\* Put of a borrowed connection: with the mutex held, the test of c.conns
\* and the non-blocking send; Close is called after the unlock.
Put(p, r) ==
    /\ Begin(p)
    /\ r \in held[p]
    /\ mu = NoProc
    /\ held' = [held EXCEPT ![p] = @ \ {r}]
    /\ LET l == [NoLocals EXCEPT !.afterRel = releaseDone, !.conn = r]
       IN IF PutFoundNil
          THEN /\ loc' = [loc EXCEPT ![p] = [l EXCEPT !.caller = "Put_closed"]]
               /\ pc' = [pc EXCEPT ![p] = "Close_lock"]
               /\ ret' = [ret EXCEPT ![p] = NoOutcome]
               /\ UNCHANGED <<ch, panicked>>
          ELSE IF ch.closed
          THEN /\ panicked' = "send_closed"
               /\ UNCHANGED <<loc, pc, ch, ret>>
          ELSE IF Len(ch.buf) < cfg.MaxCap
          THEN /\ ch' = [ch EXCEPT !.buf = Append(@, IdleConn(r, now))]
               /\ Return(p, [Outcome("Put", r, "nil", "stored", l)
                                EXCEPT !.head = HeadConn(ch'.buf)])
               /\ UNCHANGED panicked
          ELSE /\ loc' = [loc EXCEPT ![p] = [l EXCEPT !.caller = "Put_full"]]
               /\ pc' = [pc EXCEPT ![p] = "Close_lock"]
               /\ ret' = [ret EXCEPT ![p] = NoOutcome]
               /\ UNCHANGED <<ch, panicked>>
    /\ UNCHANGED <<cfg, poolVars, now, nextId, destroyCalls, histVars>>

PutNilAccepted(p) ==
    /\ Begin(p)
    /\ Return(p, Outcome("Put", Nil, "nil", "nil_arg",
                         [NoLocals EXCEPT !.afterRel = releaseDone]))
    /\ UNCHANGED <<cfg, poolVars, ch, now, nextId, destroyCalls, held,
                   panicked, histVars>>

\* Put(nil): rejected before the mutex is taken.
PutNil(p) ==
    /\ Begin(p)
    /\ Return(p, Outcome("Put", Nil, "ErrNil", "nil_arg",
                         [NoLocals EXCEPT !.afterRel = releaseDone]))
    /\ UNCHANGED <<cfg, poolVars, ch, now, nextId, destroyCalls, held,
                   panicked, histVars>>

\* ------------------------------------------------------------- Close
\* Close(nil): rejected before the mutex is taken.
CloseNil(p) ==
    /\ Begin(p)
    /\ Return(p, Outcome("Close", Nil, "ErrNil", "nil_arg",
                         [NoLocals EXCEPT !.afterRel = releaseDone]))
    /\ UNCHANGED <<cfg, poolVars, ch, now, nextId, destroyCalls, held,
                   panicked, histVars>>

\* Close called by the user on a borrowed connection: takes the mutex.
Close(p, r) ==
    /\ Begin(p)
    /\ r \in held[p]
    /\ mu = NoProc
    /\ mu' = p
    /\ held' = [held EXCEPT ![p] = @ \ {r}]
    /\ loc' = [loc EXCEPT ![p] = [NoLocals EXCEPT !.afterRel = releaseDone,
                                                  !.conn = r,
                                                  !.caller = "Close"]]
    /\ ret' = [ret EXCEPT ![p] = NoOutcome]
    /\ pc' = [pc EXCEPT ![p] = "Close_body"]
    /\ UNCHANGED <<cfg, conns, factory, close, ping, ch, now, nextId,
                   destroyCalls, panicked, histVars>>

\* Close called by Get or Put takes the mutex.
CloseLock(p) ==
    /\ At(p, "Close_lock")
    /\ mu = NoProc
    /\ mu' = p
    /\ pc' = [pc EXCEPT ![p] = "Close_body"]
    /\ UNCHANGED <<cfg, conns, factory, close, ping, ch, now, nextId,
                   destroyCalls, held, loc, ret, panicked, histVars, calls>>

CloseReturnToCaller(p, e) ==
    Return(p, [Outcome(IF loc[p].caller = "Close" THEN "Close"
                       ELSE IF loc[p].caller = "Get" THEN "Get" ELSE "Put",
                       loc[p].conn, e, loc[p].caller, loc[p])
                  EXCEPT !.head = HeadConn(ch.buf)])

\* Where Close's result e goes: Get drops it and continues its loop, Put
\* and the user's Close return it.
CloseReturn(p, e) ==
    IF loc[p].caller = "Get"
    THEN /\ pc' = [pc EXCEPT ![p] = "Get_select"]
         /\ loc' = [loc EXCEPT ![p].conn = Nil, ![p].caller = "none",
                                ![p].closeErr = @ \/ (e # "nil")]
         /\ UNCHANGED ret
    ELSE Return(p, [Outcome(IF loc[p].caller = "Close" THEN "Close" ELSE "Put",
                            loc[p].conn, e, loc[p].caller, loc[p])
                       EXCEPT !.head = HeadConn(ch.buf)])

\* With the mutex held: nil if c.close is nil, else the user's callback on
\* the connection; the deferred unlock follows.
CloseBody(p) ==
    /\ At(p, "Close_body")
    /\ mu = p
    /\ mu' = NoProc
    /\ IF ~close
       THEN /\ CloseReturn(p, "nil")
            /\ UNCHANGED destroyCalls
       ELSE /\ destroyCalls' = [destroyCalls EXCEPT ![loc[p].conn] = @ + 1]
            /\ \E e \in {"nil", "ErrClose"} : CloseReturn(p, e)
    /\ UNCHANGED <<cfg, conns, factory, close, ping, ch, now, nextId, held,
                   panicked, histVars, calls>>

\* ------------------------------------------------------------- Release
ReleaseNeverFoundNil == FALSE

\* The channel Release captured was nil.
ReleaseFoundNil == conns = "nil"

\* Release's critical section and the nil test on the captured channel, in
\* a goroutine whose locals are l.
ReleaseCS(p, l) ==
    /\ mu = NoProc
    /\ conns' = "nil"
    /\ factory' = FALSE
    /\ ping' = FALSE
    /\ close' = FALSE
    /\ IF ReleaseFoundNil
       THEN /\ Return(p, Outcome("Release", Nil, "nil", "noop", l))
            /\ releaseDone' = TRUE
            /\ UNCHANGED idleAtRelease
       ELSE /\ pc' = [pc EXCEPT ![p] = "Release_close"]
            /\ loc' = [loc EXCEPT ![p] = [l EXCEPT !.closeFun = close]]
            /\ ret' = [ret EXCEPT ![p] = NoOutcome]
            /\ idleAtRelease' = Idle
            /\ UNCHANGED releaseDone
    /\ UNCHANGED <<cfg, mu, ch, now, nextId, destroyCalls, held, panicked,
                   handed, pingFailed, timedOut>>

\* Release called by the user.
ReleaseLocked(p) ==
    /\ Begin(p)
    /\ ReleaseCS(p, [NoLocals EXCEPT !.afterRel = releaseDone])

\* close(conns)
ReleaseClose(p) ==
    /\ At(p, "Release_close")
    /\ IF ch.closed
       THEN /\ panicked' = "close_closed"
            /\ UNCHANGED <<ch, pc>>
       ELSE /\ ch' = [ch EXCEPT !.closed = TRUE]
            /\ pc' = [pc EXCEPT ![p] = "Release_drain"]
            /\ UNCHANGED panicked
    /\ UNCHANGED <<cfg, poolVars, now, nextId, destroyCalls, held, loc, ret,
                   histVars, calls>>

\* One round of the range loop: receive an entry and call closeFun on its
\* connection, or leave the loop when the closed channel is empty; Release
\* then returns, to the user or to NewChannelPool's failed pre-warm.
ReleaseDrain(p) ==
    /\ At(p, "Release_drain")
    /\ IF Len(ch.buf) > 0
       THEN /\ ch' = [ch EXCEPT !.buf = Recv(ch.buf).rest]
            /\ IF loc[p].closeFun
               THEN /\ destroyCalls' =
                        [destroyCalls EXCEPT ![Recv(ch.buf).entry.conn] = @ + 1]
                    /\ UNCHANGED panicked
               ELSE /\ panicked' = "nil_func"
                    /\ UNCHANGED destroyCalls
            /\ UNCHANGED <<pc, loc, ret, releaseDone>>
       ELSE /\ IF loc[p].caller = "New"
               THEN Return(p, Outcome("New", Nil, "ErrFactory", "prewarm",
                                      loc[p]))
               ELSE Return(p, Outcome("Release", Nil, "nil", "drained",
                                      loc[p]))
            /\ releaseDone' = TRUE
            /\ UNCHANGED <<ch, destroyCalls, panicked>>
    /\ UNCHANGED <<cfg, poolVars, now, nextId, held, idleAtRelease, handed,
                   pingFailed, timedOut, calls>>

\* ------------------------------------------------------------- time
\* The clock advances. Only the idle-timeout test reads the time stamps, so
\* the clock stands still where Config.IdleTimeout is 0.
Tick ==
    /\ panicked = "none"
    /\ cfg.IdleTimeout > 0
    /\ now < MaxTime
    /\ now' = now + 1
    /\ UNCHANGED <<cfg, poolVars, ch, nextId, destroyCalls, held, pc, loc,
                   ret, panicked, histVars, calls>>

\* ------------------------------------------------------------- Next
Next ==
    \/ \E p \in Procs : GetConns(p)
    \/ \E p \in Procs : GetSelect(p)
    \/ \E p \in Procs : GetTimeout(p)
    \/ \E p \in Procs : GetPingCheck(p)
    \/ \E p \in Procs : GetPing(p)
    \/ \E p \in Procs : GetLock(p)
    \/ \E p \in Procs : GetFactory(p)
    \/ \E p \in Procs : \E r \in Res : Put(p, r)
    \/ \E p \in Procs : PutNil(p)
    \/ \E p \in Procs : \E r \in Res : Close(p, r)
    \/ \E p \in Procs : CloseNil(p)
    \/ \E p \in Procs : CloseLock(p)
    \/ \E p \in Procs : CloseBody(p)
    \/ \E p \in Procs : ReleaseLocked(p)
    \/ \E p \in Procs : ReleaseClose(p)
    \/ \E p \in Procs : ReleaseDrain(p)
    \/ Tick

Spec == Init /\ [][Next]_vars

\* Single-threaded use with the idle-timeout disabled: one goroutine calls
\* Get and Put, one after the other.
InitST == Init /\ cfg.IdleTimeout = 0

NextST ==
    \/ GetConns(1)
    \/ GetSelect(1)
    \/ GetPingCheck(1)
    \/ GetPing(1)
    \/ GetLock(1)
    \/ GetFactory(1)
    \/ \E r \in Res : Put(1, r)
    \/ CloseLock(1)
    \/ CloseBody(1)

SpecST == InitST /\ [][NextST]_vars

\* Fair scheduling with callbacks that terminate: a goroutine inside an
\* operation that can take its next step does take it. Beginning a new
\* operation is the caller's choice and is not forced.
Step(p) ==
    \/ GetSelect(p)
    \/ GetTimeout(p)
    \/ GetPingCheck(p)
    \/ GetPing(p)
    \/ GetLock(p)
    \/ GetFactory(p)
    \/ CloseLock(p)
    \/ CloseBody(p)
    \/ ReleaseClose(p)
    \/ ReleaseDrain(p)

Fairness == \A p \in Procs : WF_vars(Step(p))

FairSpec == Spec /\ Fairness

\* ------------------------------------------------------------- NewChannelPool
\* The Configs a caller may pass: capacities in and out of range, the
\* Factory and Close callbacks present or absent.
Configs ==
    [InitialCap : -1..MaxCapBound, MaxCap : -1..MaxCapBound,
     IdleTimeout : {0, 1}, Ping : PingModes,
     Factory : BOOLEAN, Close : BOOLEAN]

\* Before construction: no pool, no channel, nothing created; goroutine 1
\* is about to call NewChannelPool.
InitNew ==
    /\ cfg \in Configs
    /\ mu = NoProc
    /\ conns = "nil"
    /\ factory = FALSE
    /\ close = FALSE
    /\ ping = FALSE
    /\ ch = [buf |-> <<>>, closed |-> FALSE]
    /\ now = 0
    /\ nextId = 0
    /\ destroyCalls = [r \in Res |-> 0]
    /\ held = [p \in Procs |-> {}]
    /\ pc = [p \in Procs |-> IF p = 1 THEN "New_check" ELSE "idle"]
    /\ loc = [p \in Procs |-> NoLocals]
    /\ ret = [p \in Procs |-> NoOutcome]
    /\ panicked = "none"
    /\ releaseDone = FALSE
    /\ idleAtRelease = {}
    /\ handed = {}
    /\ pingFailed = {}
    /\ timedOut = {}
    /\ calls = 0

BadCapacityLax(c) ==
    c.InitialCap < 0 \/ c.MaxCap < 0 \/ c.InitialCap > c.MaxCap

\* The capacity test of NewChannelPool.
BadCapacity(c) ==
    c.InitialCap < 0 \/ c.MaxCap <= 0 \/ c.InitialCap > c.MaxCap

\* The three tests of the Config, then the pool struct with its channel.
NewCheck(p) ==
    /\ At(p, "New_check")
    /\ IF BadCapacity(cfg)
       THEN /\ Return(p, Outcome("New", Nil, "ErrConfig", "capacity", loc[p]))
            /\ UNCHANGED <<conns, factory, close, ping>>
       ELSE IF ~cfg.Factory
       THEN /\ Return(p, Outcome("New", Nil, "ErrConfig", "factory", loc[p]))
            /\ UNCHANGED <<conns, factory, close, ping>>
       ELSE IF ~cfg.Close
       THEN /\ Return(p, Outcome("New", Nil, "ErrConfig", "close", loc[p]))
            /\ UNCHANGED <<conns, factory, close, ping>>
       ELSE /\ conns' = "chan"
            /\ factory' = TRUE
            /\ close' = TRUE
            /\ ping' = (cfg.Ping # "none")
            /\ pc' = [pc EXCEPT ![p] = "New_prewarm"]
            /\ UNCHANGED <<loc, ret>>
    /\ UNCHANGED <<cfg, mu, ch, now, nextId, destroyCalls, held, panicked,
                   histVars, calls>>

PrewarmOneMore == nextId <= cfg.InitialCap

\* The loop test i < poolConfig.InitialCap; i connections have been made.
PrewarmMore == nextId < cfg.InitialCap

NewPrewarmNoTeardown(p) ==
    /\ At(p, "New_prewarm")
    /\ IF PrewarmMore
       THEN \/ /\ nextId' = nextId + 1
               /\ ch' = [ch EXCEPT !.buf = Append(@, IdleConn(nextId + 1, now))]
               /\ UNCHANGED <<pc, loc, ret>>
            \/ /\ Return(p, Outcome("New", Nil, "ErrFactory", "prewarm",
                                     loc[p]))
               /\ UNCHANGED <<nextId, ch>>
       ELSE /\ Return(p, Outcome("New", Nil, "nil", "pool", loc[p]))
            /\ UNCHANGED <<nextId, ch>>
    /\ UNCHANGED <<cfg, poolVars, now, destroyCalls, held, panicked,
                   histVars, calls>>

\* One round of the pre-warm loop: the factory makes a connection, which is
\* sent to the channel, or fails, and NewChannelPool calls c.Release; past
\* the loop, NewChannelPool returns the pool.
NewPrewarm(p) ==
    /\ At(p, "New_prewarm")
    /\ IF PrewarmMore
       THEN \/ /\ nextId' = nextId + 1
               /\ ch' = [ch EXCEPT !.buf = Append(@, IdleConn(nextId + 1, now))]
               /\ UNCHANGED <<poolVars, pc, loc, ret, histVars>>
            \/ ReleaseCS(p, [NoLocals EXCEPT !.caller = "New"])
       ELSE /\ Return(p, Outcome("New", Nil, "nil", "pool", loc[p]))
            /\ UNCHANGED <<poolVars, nextId, ch, histVars>>
    /\ UNCHANGED <<cfg, now, destroyCalls, held, panicked, calls>>

\* NewChannelPool, called once by one goroutine, with the Release it calls.
NextNew ==
    \/ NewCheck(1)
    \/ NewPrewarm(1)
    \/ ReleaseClose(1)
    \/ ReleaseDrain(1)

SpecNew == InitNew /\ [][NextNew]_vars

\* ------------------------------------------------------------- properties
GetPositions ==
    {"Get_select", "Get_timeout", "Get_pingcheck", "Get_ping", "Get_lock",
     "Get_factory"}

\* Goroutine p is inside Get (the Close it calls for an eviction included).
InGet(p) ==
    \/ pc[p] \in GetPositions
    \/ pc[p] \in {"Close_lock", "Close_body"} /\ loc[p].caller = "Get"

\* Goroutine p is inside Release, past its critical section.
Draining(p) == pc[p] \in {"Release_close", "Release_drain"}

\* Connection r is in the hands of a running operation: received by a Get
\* that has not yet decided about it, or the parameter of a running Close.
InFlight(r) == \E p \in Procs : loc[p].wrapConn.conn = r \/ loc[p].conn = r

\* Connection r left the channel through a Get.
TakenByGet(r) ==
    \/ r \in handed \cup timedOut \cup pingFailed
    \/ \E p \in Procs : loc[p].wrapConn.conn = r

\* C1: in every interleaving of Get, Put, Close and Release, with every
\* borrowed connection handed back at most once, the destruction callback is
\* called at most once on any connection, and no operation panics on the
\* channel (no send on a closed channel, no second close).
C1_DestroyedAtMostOnce ==
    /\ \A r \in Res : destroyCalls[r] <= 1
    /\ panicked \notin {"send_closed", "close_closed"}

\* C1's case: Release drains while another goroutine is inside Close, after
\* a connection has been destroyed.
C1_Witness ==
    \E p, q \in Procs :
        /\ pc[p] = "Release_drain"
        /\ pc[q] = "Close_body"
        /\ \E r \in Res : destroyCalls[r] = 1

\* C2 as claimed: a Put or Close of a non-nil connection that began after a Release
\* had returned called the destruction callback exactly once on it.
C2_DestroyedAfterRelease ==
    \A p \in Procs :
        ret[p].op \in {"Put", "Close"} /\ ret[p].afterRel /\ ret[p].conn # Nil
            => destroyCalls[ret[p].conn] = 1

\* C3 as claimed: every connection that was in the channel at Release's
\* critical section is still there, or in the hands of a running operation,
\* or destroyed exactly once, or was returned by a Get.
C3_NoLeakAtRelease ==
    \A r \in idleAtRelease :
        \/ r \in Idle
        \/ InFlight(r)
        \/ destroyCalls[r] = 1
        \/ r \in handed

\* C4: a Get that begins after a Release has returned never enters its loop
\* (so it receives nothing and never reaches the factory), and returns
\* ErrClosed with no connection.
C4_GetAfterRelease ==
    \A p \in Procs :
        /\ InGet(p) => ~loc[p].afterRel
        /\ ret[p].op = "Get" /\ ret[p].afterRel
              => /\ ret[p].err = "ErrClosed"
                 /\ ret[p].conn = Nil
                 /\ ret[p].path = "snapshot"

\* C4's case: a Get that began after a Release returned has returned.
C4_Witness ==
    \E p \in Procs : ret[p].op = "Get" /\ ret[p].afterRel

\* C5: only one Release call ever gets past the nil test: a Release that
\* runs after another one's critical section, during its drain or after it,
\* returns without closing the channel or destroying anything; and once the
\* drain is over the channel is empty and each connection that was in it at
\* the critical section was destroyed exactly once, unless a Get took it.
C5_ReleaseIdempotent ==
    /\ panicked # "close_closed"
    /\ Cardinality({p \in Procs : Draining(p)}) <= 1
    /\ \A p \in Procs :
          /\ Draining(p) =>
                /\ ~loc[p].afterRel
                /\ \A q \in Procs : ret[q].op = "Release" => ret[q].path = "noop"
          /\ ret[p].op = "Release" /\ ret[p].afterRel => ret[p].path = "noop"
    /\ \A r \in idleAtRelease : destroyCalls[r] <= 1
    /\ ch.closed /\ (\A p \in Procs : ~Draining(p)) =>
          /\ ch.buf = <<>>
          /\ \A r \in idleAtRelease : destroyCalls[r] = 1 \/ TakenByGet(r)

\* C5's case: a second Release has returned while the first one is still
\* draining entries.
C5_Witness ==
    \E p, q \in Procs :
        /\ ret[p].op = "Release" /\ ret[p].path = "noop"
        /\ pc[q] = "Release_drain"
        /\ Len(ch.buf) > 0

\* C6 as claimed: with a Ping callback that always fails and the pool not
\* released, once no operation is running, every connection a Get returned
\* came from the factory and every connection that failed validation was
\* destroyed exactly once.
C6_AlwaysFailingPing ==
    cfg.Ping = "fail" /\ conns = "chan" /\ (\A q \in Procs : pc[q] = "idle") =>
        /\ \A p \in Procs :
              ret[p].op = "Get" /\ ret[p].err = "nil" => ret[p].path = "created"
        /\ \A r \in pingFailed : destroyCalls[r] = 1

C8_GetReturnsLastPut ==
    \A p \in Procs :
        /\ ret[p].op = "Get" /\ ret[p].err = "nil"
        /\ ret[p].putConn # Nil
        /\ pingFailed = {}
        => ret[p].conn = ret[p].putConn

\* C8, amended: under the same conditions the Get returns the oldest entry
\* of the channel, the one at its head when the Put returned; that is r
\* only if the channel was empty when Put stored r.
C8_GetReturnsOldest ==
    \A p \in Procs :
        /\ ret[p].op = "Get" /\ ret[p].err = "nil"
        /\ ret[p].putConn # Nil
        /\ pingFailed = {}
        => /\ ret[p].path = "idle"
           /\ ret[p].conn = ret[p].putHead

\* C8's case: a Get right after Put(r) returned an older entry, not r.
C8_Witness ==
    \E p \in Procs :
        /\ ret[p].op = "Get" /\ ret[p].err = "nil"
        /\ ret[p].putConn # Nil
        /\ pingFailed = {}
        /\ ret[p].conn # ret[p].putConn

\* C9 as claimed: the channel never holds more than MaxCap entries, and a
\* Put that found the channel of an open pool full called the destruction
\* callback on its connection, stored nothing and did not return ErrClosed.
C9_PutOnFullDestroys ==
    /\ Len(ch.buf) <= cfg.MaxCap
    /\ \A p \in Procs :
          ret[p].op = "Put" /\ ret[p].path = "Put_full" =>
              /\ destroyCalls[ret[p].conn] = 1
              /\ ret[p].conn \notin Idle
              /\ ret[p].err # "ErrClosed"

\* The connections alive outside the callbacks: idle or borrowed.
Live == Idle \cup UNION {held[p] : p \in Procs}

\* C10: a Get at its select can always take a step; with the channel empty
\* and open that step is the default branch, whatever the number of live
\* connections; and with the mutex, if the factory is still set, Get calls
\* it and returns its result, a new connection or the factory's error.
C10_GetNeverWaits ==
    /\ [](\A p \in Procs : At(p, "Get_select") => ENABLED GetSelect(p))
    /\ [][\A p \in Procs :
            /\ pc[p] = "Get_select" /\ pc'[p] # "Get_select"
               /\ Len(ch.buf) = 0 /\ ~ch.closed
               => pc'[p] = "Get_lock"
            /\ pc[p] = "Get_factory" /\ pc'[p] # "Get_factory" /\ factory
               => /\ ret'[p].op = "Get"
                  /\ ret'[p].path = "created"
                  /\ ret'[p].err \in {"nil", "ErrFactory"}
                  /\ ret'[p].err = "nil" =>
                        /\ nextId' = nextId + 1
                        /\ ret'[p].conn = nextId'
                        /\ nextId' \in held'[p]]_vars

\* C10's case: on an open pool more connections are alive, idle or borrowed,
\* than MaxCap, the last of them made by a Get that found the channel empty.
C10_Witness ==
    /\ conns = "chan"
    /\ Cardinality(Live) > cfg.MaxCap
    /\ \E p \in Procs : ret[p].op = "Get" /\ ret[p].path = "created"
                        /\ ret[p].conn \in Live

\* C11 as claimed: under fair scheduling every Get that has entered its loop
\* returns, whatever Get, Put, Close and Release calls run beside it.
C11_GetReturns ==
    \A p \in Procs : InGet(p) ~> pc[p] = "idle"

\* C12: Put(nil) and Close(nil) return the nil-connection error, and the
\* step that makes the call changes neither the mutex, the pool's fields,
\* the channel, the count of destruction calls nor what the borrowers hold,
\* on an open pool and on a released one.
C12_NilRejected ==
    /\ [](\A p \in Procs :
            ret[p].op \in {"Put", "Close"} /\ ret[p].conn = Nil
                => ret[p].err = "ErrNil")
    /\ [][\A p \in Procs :
            /\ pc[p] = "idle" /\ ret'[p] # ret[p]
            /\ ret'[p].op \in {"Put", "Close"} /\ ret'[p].conn = Nil
            => UNCHANGED <<poolVars, ch, destroyCalls, held, nextId,
                           panicked>>]_vars

\* C12's case: a Put(nil) has returned on a released pool, and a Close(nil)
\* on an open pool with an idle entry and a borrowed connection.
C12_Witness ==
    \E p, q \in Procs :
        /\ ret[p].op = "Put" /\ ret[p].conn = Nil /\ ret[p].afterRel
        /\ ret[q].op = "Close" /\ ret[q].conn = Nil /\ ~ret[q].afterRel
        /\ held[q] # {}

\* C13: when the factory fails during the pre-warm, after k-1 connections
\* were made (k <= InitialCap), NewChannelPool returns the factory error and
\* no pool, each of the k-1 connections was destroyed exactly once and
\* nothing else was, and the channel is closed and empty; at no moment of
\* the teardown is a connection destroyed twice.
C13_PrewarmFailure ==
    /\ \A r \in Res : destroyCalls[r] <= 1
    /\ panicked = "none"
    /\ \A p \in Procs :
          ret[p].op = "New" /\ ret[p].path = "prewarm" =>
              /\ ret[p].err = "ErrFactory"
              /\ ret[p].conn = Nil
              /\ nextId < cfg.InitialCap
              /\ \A r \in Res :
                    destroyCalls[r] = IF r <= nextId THEN 1 ELSE 0
              /\ ch.buf = <<>> /\ ch.closed
              /\ conns = "nil"

\* C13's case: with InitialCap = 2 the factory failed on its second call,
\* and NewChannelPool has returned after destroying the one connection made
\* before.
C13_Witness ==
    /\ ret[1].op = "New" /\ ret[1].path = "prewarm"
    /\ cfg.InitialCap = 2
    /\ nextId = 1
    /\ destroyCalls[1] = 1

\* C14: when NewChannelPool returns a pool, the factory was called
\* InitialCap times, each time with success, the destruction callback was
\* not called, Len is InitialCap with 0 <= InitialCap <= MaxCap, and the
\* pool is open with the InitialCap connections in its channel in the order
\* they were made.
C14_Construction ==
    \A p \in Procs :
        ret[p].op = "New" /\ ret[p].err = "nil" =>
            /\ nextId = cfg.InitialCap
            /\ \A r \in Res : destroyCalls[r] = 0
            /\ PoolLen = cfg.InitialCap
            /\ 0 <= cfg.InitialCap /\ cfg.InitialCap <= cfg.MaxCap
            /\ conns = "chan" /\ factory /\ close
            /\ ping = (cfg.Ping # "none")
            /\ mu = NoProc
            /\ ch = [buf |-> [i \in 1..cfg.InitialCap |-> IdleConn(i, 0)],
                     closed |-> FALSE]

\* C14's case: a pool was constructed with InitialCap = MaxCap = 2.
C14_Witness ==
    /\ ret[1].op = "New" /\ ret[1].err = "nil"
    /\ cfg.InitialCap = 2 /\ cfg.MaxCap = 2
    /\ PoolLen = 2

\* C15: with InitialCap < 0, MaxCap <= 0, InitialCap > MaxCap, or the
\* Factory or the Close callback absent, NewChannelPool never gets to the
\* pool struct and the pre-warm, and returns a configuration error and no
\* pool, with no call of the factory and none of the destruction callback.
C15_ConfigError ==
    (\/ cfg.InitialCap < 0
     \/ cfg.MaxCap <= 0
     \/ cfg.InitialCap > cfg.MaxCap
     \/ ~cfg.Factory
     \/ ~cfg.Close) =>
        /\ pc[1] \in {"New_check", "idle"}
        /\ conns = "nil"
        /\ nextId = 0
        /\ \A r \in Res : destroyCalls[r] = 0
        /\ ret[1].op = "New" =>
              /\ ret[1].err = "ErrConfig"
              /\ ret[1].conn = Nil

\* C15's case: NewChannelPool has rejected MaxCap = 0 with InitialCap = 0
\* and both callbacks present.
C15_Witness ==
    /\ ret[1].op = "New" /\ ret[1].err = "ErrConfig"
    /\ cfg.MaxCap = 0 /\ cfg.InitialCap = 0
    /\ cfg.Factory /\ cfg.Close

\* C16 as claimed: a goroutine in Get, Put or Close does not hold the mutex
\* in the step in which it calls the destruction callback (Close's body) or
\* the validation callback (Get's call of Ping).
C16_CallbacksOutsideMutex ==
    [][\A p \in Procs :
          /\ pc[p] = "Close_body" /\ pc'[p] # pc[p]
             /\ destroyCalls'[loc[p].conn] > destroyCalls[loc[p].conn]
             => mu # p
          /\ pc[p] = "Get_ping" /\ pc'[p] # pc[p] => mu # p]_vars

\* C17: Put never sends on a closed channel; an entry enters the channel
\* only while c.conns is set and the channel is open, so once Release's
\* critical section has run the channel holds nothing that was not in it at
\* the critical section; and every entry that was in it then is still
\* there, or was destroyed once, or was received by a Get; with the drain
\* over, the channel is empty.
C17_PutAtomicWithRelease ==
    /\ [](panicked # "send_closed")
    /\ [][Len(ch'.buf) > Len(ch.buf) =>
            conns = "chan" /\ conns' = "chan" /\ ~ch.closed]_vars
    /\ [](conns = "nil" => Idle \subseteq idleAtRelease)
    /\ [](\A r \in idleAtRelease :
            r \in Idle \/ destroyCalls[r] = 1 \/ TakenByGet(r))
    /\ [](ch.closed /\ (\A p \in Procs : ~Draining(p)) => ch.buf = <<>>)

\* C17's case: a Put ran between Release's critical section and its
\* close(conns), found c.conns nil and pushed nothing: the channel, still
\* open, holds what it held at the critical section.
C17_Witness ==
    \E p, q \in Procs :
        /\ pc[q] = "Release_close"
        /\ pc[p] = "Close_lock" /\ loc[p].caller = "Put_closed"
        /\ ~ch.closed
        /\ idleAtRelease # {}
        /\ Idle = idleAtRelease

\* C18: Get returns no error but ErrClosed (from the snapshot or from a
\* receive on the closed channel) and the factory's error; when the Close
\* Get called for an expired entry returns, with an error or not, and when
\* Ping returns an error, Get goes back to its select.
C18_GetErrors ==
    /\ [](\A p \in Procs :
            ret[p].op = "Get" =>
                /\ ret[p].err \in {"nil", "ErrClosed", "ErrFactory"}
                /\ ret[p].err = "ErrFactory" => ret[p].path = "created"
                /\ ret[p].err = "ErrClosed"
                      => ret[p].path \in {"snapshot", "recv_closed"})
    /\ [][\A p \in Procs :
            /\ pc[p] = "Close_body" /\ loc[p].caller = "Get"
               /\ pc'[p] # pc[p]
               => pc'[p] = "Get_select" /\ ret'[p] = ret[p]
            /\ pc[p] = "Get_ping" /\ pc'[p] # pc[p]
               => \/ pc'[p] = "idle" /\ ret'[p].err = "nil"
                  \/ pc'[p] = "Get_select" /\ ret'[p] = ret[p]]_vars

\* C18's case: a Get whose eviction got an error from the destruction
\* callback and whose next entry failed validation has returned a new
\* connection and no error.
C18_Witness ==
    \E p \in Procs :
        /\ ret[p].op = "Get" /\ ret[p].closeErr /\ ret[p].pingErr
        /\ ret[p].err = "nil" /\ ret[p].path = "created"

\* C19 as claimed: no goroutine ever calls a nil function value: the c.ping
\* that Get calls through c.Ping is the non-nil one its test saw.
C19_PingNotNilAtCall ==
    panicked # "nil_func"

\* The places connection r is in: entries of the channel, borrowers holding
\* it, locals of running operations, and the destroyed ones.
Places(r) ==
    Cardinality({i \in 1..Len(ch.buf) : ch.buf[i].conn = r})
    + Cardinality({p \in Procs : r \in held[p]})
    + Cardinality({p \in Procs : loc[p].wrapConn.conn = r \/ loc[p].conn = r})
    + (IF destroyCalls[r] > 0 THEN 1 ELSE 0)

\* C20: with every borrowed connection handed back at most once, each
\* connection is in at most one place: one entry of the channel, one
\* borrower, one running operation that received it or is closing it, or
\* destroyed; a connection the factory has not made yet is nowhere; and
\* what a Get has just returned is held by its caller alone.
C20_OnePlace ==
    /\ [](\A r \in Res :
            /\ Places(r) <= 1
            /\ r > nextId => Places(r) = 0)
    /\ [][\A p \in Procs :
            /\ pc[p] \in GetPositions /\ pc'[p] = "idle"
            /\ ret'[p].err = "nil"
            => /\ held'[p] = held[p] \cup {ret'[p].conn}
               /\ ret'[p].conn \notin held[p]
               /\ \A q \in Procs \ {p} : ret'[p].conn \notin held'[q]
               /\ ret'[p].conn \notin {ch'.buf[i].conn : i \in 1..Len(ch'.buf)}
               /\ destroyCalls'[ret'[p].conn] = 0]_vars

\* C20's case: two goroutines are each in a Get at the same time, and each
\* has received an entry of the channel, not the same one.
C20_Witness ==
    \E p, q \in Procs :
        /\ p # q
        /\ pc[p] = "Get_pingcheck" /\ pc[q] = "Get_pingcheck"
        /\ loc[p].wrapConn.conn # Nil /\ loc[q].wrapConn.conn # Nil
        /\ loc[p].wrapConn.conn # loc[q].wrapConn.conn

====
